---------------------------- MODULE Spec2Model ----------------------------
(***************************************************************************)
(* Odds normalisation (src/normaliz_odds.py): American odds -> decimal     *)
(* odds -> implied probabilities -> fair (de-vigged) probabilities, the    *)
(* flattening of a snapshot document into records, and the batch run over  *)
(* the snapshot folder.                                                    *)
(*                                                                         *)
(* Numbers.  Python floats are modelled by exact rationals [n, d] in       *)
(* lowest terms with d > 0; round(x, 4) is modelled on the exact value     *)
(* (round-half-even, as Python does for a value that is exactly a tie).    *)
(* Python values read from JSON are tagged records, so that None, strings  *)
(* and integers can be told apart: [none |-> TRUE], [str |-> s],           *)
(* [int |-> i], [float |-> r].  A JSON object is a record whose DOMAIN is  *)
(* the set of keys present: a missing key is a key not in the DOMAIN.      *)
(* An exception is modelled by the name of its class; "none" for a normal  *)
(* return.                                                                 *)
(***************************************************************************)
EXTENDS Integers, Sequences, FiniteSets, TLC

VARIABLES
    sport,      \* the module-level variable `sport` of normaliz_odds.py (line 8)
    odds,       \* converter check: the argument of american_to_decimal
    conv,       \* converter check: [done, exc, val, rounded] the call's outcome
    snapshot,   \* flattener check: the parsed snapshot document
    result,     \* flattener check: [done, exc, rows] of normalize_snapshot_file
    listing,    \* batch run: os.listdir(SNAPSHOT_FOLDER), a sequence of file names
    files,      \* batch run: the snapshot folder, file name -> file
    outdir,     \* batch run: whether the folder NORMALIZED_FOLDER exists
    normalized, \* batch run: the files of NORMALIZED_FOLDER, path -> content
    pc,         \* batch run: position in normalize_all_snapshots
    pos,        \* batch run: index in listing of the file at hand
    normalized_rows,    \* batch run: the rows of the file at hand
    exc,        \* batch run: the exception that ended the run, or "none"
    key_file,   \* snapshot tools: the text of KEY_FILE, or Absent
    stdout,     \* snapshot tools: what the last `key` command printed
    selections_file,    \* API-Sports: the list stored in SELECTIONS_FILE, or Absent
    argv,       \* API-Sports snapshot: the --categories and --date arguments
    categories, \* API-Sports snapshot: the categories argument of snapshot()
    active_categories,  \* API-Sports snapshot: the list pulled for the selection at hand
    snap_pc,    \* API-Sports snapshot: position in main / snapshot()
    sel_pos,    \* API-Sports snapshot: index of the selection at hand
    cat_pos,    \* API-Sports snapshot: index in active_categories
    attempts,   \* API-Sports snapshot: the api_get calls made, in order
    out_files,  \* API-Sports snapshot: the files written under ROOT
    snap_exc,   \* API-Sports snapshot: the exception that ended the run, or "none"
    param_depth,    \* api_sniffer batch: the --param-depth argument
    apis,       \* api_sniffer batch: config["apis"] with what discovery finds for each
    api_pos,    \* api_sniffer batch: index of the API at hand
    sniff_pc,   \* api_sniffer batch: position in run_batch_discovery
    probes,     \* api_sniffer batch: number of parameter-test probes issued
    results,    \* api_sniffer batch: results["apis"], name -> entry
    sniff_exc,  \* api_sniffer batch: the exception that ended the run, or "none"
    sports_arg, \* OddsAPI snapshot: args.sports
    fetch_pos,  \* OddsAPI snapshot: index in args.sports of the sport at hand
    fetch_pc,   \* OddsAPI snapshot: position in main
    disk,       \* OddsAPI snapshot: the files written, path -> JSON data
    fetch_exc   \* OddsAPI snapshot: the exception that ended the run, or "none"

convVars == <<odds, conv>>
flatVars == <<snapshot, result>>
batchVars == <<listing, files, outdir, normalized, pc, pos, normalized_rows, exc>>
keyVars == <<key_file, stdout>>
selVars == <<selections_file>>
snapVars == <<argv, categories, active_categories, snap_pc, sel_pos, cat_pos,
              attempts, out_files, snap_exc>>
snifferVars == <<param_depth, apis, api_pos, sniff_pc, probes, results, sniff_exc>>
oddsapiVars == <<sports_arg, fetch_pos, fetch_pc, disk, fetch_exc>>
toolVars == <<keyVars, selVars, snapVars, snifferVars, oddsapiVars>>
coreVars == <<sport, convVars, flatVars, batchVars>>
vars == <<sport, convVars, flatVars, batchVars, toolVars>>

(***************************************************************************)
(* Bounds                                                                  *)
(***************************************************************************)
MaxOdds == 300
MaxNodes == 8
MaxOutcomes == 3
MaxFiles == 3

(***************************************************************************)
(* Python values                                                           *)
(***************************************************************************)
None == [none |-> TRUE]
JStr(s) == [str |-> s]
JInt(i) == [int |-> i]
JFloat(r) == [float |-> r]
IsInt(v) == "int" \in DOMAIN v

\* dict.get(key, default)
Get(obj, key, default) == IF key \in DOMAIN obj THEN obj[key] ELSE default

Ok(v) == [exc |-> "none", val |-> v]
Raise(e) == [exc |-> e, val |-> None]

(***************************************************************************)
(* Exact rationals standing for floats                                     *)
(***************************************************************************)
Abs(x) == IF x < 0 THEN -x ELSE x

RECURSIVE GCD(_, _)
GCD(a, b) == IF b = 0 THEN a ELSE GCD(b, a % b)

Rat(n, d) ==
    LET g == GCD(Abs(n), Abs(d))
        s == IF d < 0 THEN -1 ELSE 1
    IN  [n |-> (s * n) \div g, d |-> (s * d) \div g]

RInt(i) == [n |-> i, d |-> 1]
RAdd(a, b) == Rat(a.n * b.d + b.n * a.d, a.d * b.d)
RDiv(a, b) == Rat(a.n * b.d, a.d * b.n)
RSub(a, b) == Rat(a.n * b.d - b.n * a.d, a.d * b.d)
RAbs(a) == [n |-> Abs(a.n), d |-> a.d]
RLess(a, b) == a.n * b.d < b.n * a.d
RLeq(a, b) == a.n * b.d <= b.n * a.d

\* round(x, 4), in units of 1/10000: nearest, ties to even.  (On a float that
\* only approximates a tie, Python rounds by the float's own value; no value
\* the models below round is a tie.)
\* The whole part is set apart before the scaling, so that the products stay
\* small for odds of millions.
Round4Units(x) ==
    LET w == x.n \div x.d
        m == (x.n % x.d) * 10000
        q == w * 10000 + (m \div x.d)
        r == m % x.d
    IN  IF 2 * r < x.d THEN q
        ELSE IF 2 * r > x.d THEN q + 1
        ELSE IF q % 2 = 0 THEN q ELSE q + 1

Round4(x) == Rat(Round4Units(x), 10000)

(***************************************************************************)
(* src/normaliz_odds.py: the converter and the normaliser                  *)
(***************************************************************************)
\* Mutant: the profit per unit staked, without the stake
american_to_decimal_Profit(o) ==
    IF ~IsInt(o) THEN Raise("TypeError")
    ELSE IF o.int > 0 THEN Ok(Rat(o.int, 100))
    ELSE IF Abs(o.int) = 0 THEN Raise("ZeroDivisionError")
    ELSE Ok(Rat(100, Abs(o.int)))

\* Mutant: the negative branch without abs()
american_to_decimal_NoAbs(o) ==
    IF ~IsInt(o) THEN Raise("TypeError")
    ELSE IF o.int > 0 THEN Ok(RAdd(RInt(1), Rat(o.int, 100)))
    ELSE IF o.int = 0 THEN Raise("ZeroDivisionError")
    ELSE Ok(RAdd(RInt(1), Rat(100, o.int)))

\* `odds > 0` raises TypeError for None (and for a string)
american_to_decimal(o) ==
    IF ~IsInt(o) THEN Raise("TypeError")
    ELSE IF o.int > 0 THEN Ok(RAdd(RInt(1), Rat(o.int, 100)))
    ELSE IF Abs(o.int) = 0 THEN Raise("ZeroDivisionError")
    ELSE Ok(RAdd(RInt(1), Rat(100, Abs(o.int))))

compute_implied_prob(decimal_odds) ==
    IF decimal_odds.n = 0 THEN Raise("ZeroDivisionError")
    ELSE Ok(RDiv(RInt(1), decimal_odds))

\* A list comprehension, element by element: the first exception ends it
Cons(h, t) ==
    IF h.exc # "none" THEN Raise(h.exc)
    ELSE IF t.exc # "none" THEN Raise(t.exc)
    ELSE Ok(<<h.val>> \o t.val)

\* line 49-51: [american_to_decimal(o.get("price")) for o in outcomes]
RECURSIVE decimal_odds_list(_)
decimal_odds_list(outcomes) ==
    IF outcomes = <<>> THEN Ok(<<>>)
    ELSE Cons(american_to_decimal(Get(Head(outcomes), "price", None)),
              decimal_odds_list(Tail(outcomes)))

\* Mutant: the implied probabilities are computed from the rounded decimal odds
implied_probs_FromRounded(ds) ==
    Ok([i \in 1..Len(ds) |-> RDiv(RInt(1), Round4(ds[i]))])

\* line 52: [compute_implied_prob(d) for d in decimal_odds_list]
RECURSIVE implied_probs(_)
implied_probs(ds) ==
    IF ds = <<>> THEN Ok(<<>>)
    ELSE Cons(compute_implied_prob(Head(ds)), implied_probs(Tail(ds)))

\* sum(probabilities), 0 for the empty list
RECURSIVE RSum(_)
RSum(ps) == IF ps = <<>> THEN RInt(0) ELSE RAdd(Head(ps), RSum(Tail(ps)))

\* Mutant: each probability is divided by the number of probabilities
remove_vig_DivByCount(probabilities) ==
    Ok([i \in 1..Len(probabilities) |-> RDiv(probabilities[i], RInt(Len(probabilities)))])

\* Mutant: the probabilities are returned without rescaling
remove_vig_NoRescale(probabilities) == Ok(probabilities)

\* Mutant: 1 / total is computed once, before the comprehension
remove_vig_DividesFirst(probabilities) ==
    LET total == RSum(probabilities)
    IN  IF total.n = 0 THEN Raise("ZeroDivisionError")
        ELSE Ok([i \in 1..Len(probabilities) |-> RDiv(probabilities[i], total)])

\* [p / total for p in probabilities]: no division happens for an empty list
remove_vig(probabilities) ==
    LET total == RSum(probabilities)
    IN  IF probabilities = <<>> THEN Ok(<<>>)
        ELSE IF total.n = 0 THEN Raise("ZeroDivisionError")
        ELSE Ok([i \in 1..Len(probabilities) |-> RDiv(probabilities[i], total)])

(***************************************************************************)
(* src/normaliz_odds.py: normalize_snapshot_file                           *)
(***************************************************************************)
Rows(rs) == [exc |-> "none", rows |-> rs]
Fail(e) == [exc |-> e, rows |-> <<>>]

\* Mutant: the bookmaker and market columns are swapped
Row_Swapped(event_id, sport_, commence_time, bookmaker_name, last_update, market_key, outcome, decimal_odds, implied_prob, fair_prob) ==
    [event_id |-> event_id,
     sport |-> sport_,
     commence_time |-> commence_time,
     bookmaker |-> market_key,
     market |-> bookmaker_name,
     outcome |-> Get(outcome, "name", None),
     american_odds |-> Get(outcome, "price", None),
     decimal_odds |-> JFloat(Round4(decimal_odds)),
     implied_probability |-> JFloat(Round4(implied_prob)),
     fair_probability |-> JFloat(Round4(fair_prob)),
     last_update |-> last_update]

\* Mutant: an event without sport_key gets the module-level sport
Row_ModuleSport(event_id, sport_, commence_time, bookmaker_name, last_update, market_key, outcome, decimal_odds, implied_prob, fair_prob) ==
    [event_id |-> event_id,
     sport |-> IF sport_ = None THEN sport ELSE sport_,
     commence_time |-> commence_time,
     bookmaker |-> bookmaker_name,
     market |-> market_key,
     outcome |-> Get(outcome, "name", None),
     american_odds |-> Get(outcome, "price", None),
     decimal_odds |-> JFloat(Round4(decimal_odds)),
     implied_probability |-> JFloat(Round4(implied_prob)),
     fair_probability |-> JFloat(Round4(fair_prob)),
     last_update |-> last_update]

\* lines 62-74: the record of outcome idx of a market
Row(event_id, sport_, commence_time, bookmaker_name, last_update, market_key, outcome, decimal_odds, implied_prob, fair_prob) ==
    [event_id |-> event_id,
     sport |-> sport_,
     commence_time |-> commence_time,
     bookmaker |-> bookmaker_name,
     market |-> market_key,
     outcome |-> Get(outcome, "name", None),
     american_odds |-> Get(outcome, "price", None),
     decimal_odds |-> JFloat(Round4(decimal_odds)),
     implied_probability |-> JFloat(Round4(implied_prob)),
     fair_probability |-> JFloat(Round4(fair_prob)),
     last_update |-> last_update]

\* lines 49-53: the three lists of a market, or the exception raised
Lists(ds, ips, fps) == [exc |-> "none", decimal |-> ds, implied |-> ips, fair |-> fps]
NoLists(e) == [exc |-> e, decimal |-> <<>>, implied |-> <<>>, fair |-> <<>>]

WithFair(ds, ips, fps) ==
    IF fps.exc # "none" THEN NoLists(fps.exc) ELSE Lists(ds, ips, fps.val)

WithImplied(ds, ips) ==
    IF ips.exc # "none" THEN NoLists(ips.exc)
    ELSE WithFair(ds, ips.val, remove_vig(ips.val))

WithDecimal(ds) ==
    IF ds.exc # "none" THEN NoLists(ds.exc)
    ELSE WithImplied(ds.val, implied_probs(ds.val))

MarketLists(outcomes) == WithDecimal(decimal_odds_list(outcomes))

\* Mutant: the three lists are read from their far end
EmitRows_Reversed(event_id, sport_, commence_time, bookmaker_name, last_update, market_key, outcomes, lists) ==
    IF lists.exc # "none" THEN Fail(lists.exc)
    ELSE Rows([idx \in 1..Len(outcomes) |->
                 Row(event_id, sport_, commence_time, bookmaker_name, last_update,
                     market_key, outcomes[idx], lists.decimal[Len(outcomes) + 1 - idx],
                     lists.implied[Len(outcomes) + 1 - idx],
                     lists.fair[Len(outcomes) + 1 - idx])])

\* lines 55-76: one row per outcome, by index
EmitRows(event_id, sport_, commence_time, bookmaker_name, last_update, market_key, outcomes, lists) ==
    IF lists.exc # "none" THEN Fail(lists.exc)
    ELSE Rows([idx \in 1..Len(outcomes) |->
                 Row(event_id, sport_, commence_time, bookmaker_name, last_update,
                     market_key, outcomes[idx], lists.decimal[idx],
                     lists.implied[idx], lists.fair[idx])])

\* lines 45-76: the body of `for market in ...`
MarketRows(event_id, sport_, commence_time, bookmaker_name, last_update, market) ==
    EmitRows(event_id, sport_, commence_time, bookmaker_name, last_update,
             Get(market, "key", None), Get(market, "outcomes", <<>>),
             MarketLists(Get(market, "outcomes", <<>>)))

\* Mutant: the rows of a loop's later rounds are put before the earlier ones
Then_Prepends(h, t) ==
    IF h.exc # "none" THEN h
    ELSE IF t.exc # "none" THEN t
    ELSE Rows(t.rows \o h.rows)

\* rows are appended loop after loop; the first exception ends the call
Then(h, t) ==
    IF h.exc # "none" THEN h
    ELSE IF t.exc # "none" THEN t
    ELSE Rows(h.rows \o t.rows)

\* lines 45-76: `for market in bookmaker.get("markets", [])`, over the markets left
RECURSIVE BookmakerRows(_, _, _, _, _, _)
BookmakerRows(event_id, sport_, commence_time, bookmaker_name, last_update, markets) ==
    IF markets = <<>> THEN Rows(<<>>)
    ELSE Then(MarketRows(event_id, sport_, commence_time, bookmaker_name,
                         last_update, Head(markets)),
              BookmakerRows(event_id, sport_, commence_time, bookmaker_name,
                            last_update, Tail(markets)))

\* lines 41-76: `for bookmaker in event.get("bookmakers", [])`, over the
\* bookmakers left
RECURSIVE EventRows(_, _, _, _)
EventRows(event_id, sport_, commence_time, bookmakers) ==
    IF bookmakers = <<>> THEN Rows(<<>>)
    ELSE Then(BookmakerRows(event_id, sport_, commence_time,
                            Get(Head(bookmakers), "key", None),
                            Get(Head(bookmakers), "last_update", None),
                            Get(Head(bookmakers), "markets", <<>>)),
              EventRows(event_id, sport_, commence_time, Tail(bookmakers)))

\* lines 34-76: `for event in snapshot.get("events", [])`, over the events left
RECURSIVE SnapshotRows(_)
SnapshotRows(events) ==
    IF events = <<>> THEN Rows(<<>>)
    ELSE Then(EventRows(Get(Head(events), "id", None),
                        Get(Head(events), "sport_key", None),
                        Get(Head(events), "commence_time", None),
                        Get(Head(events), "bookmakers", <<>>)),
              SnapshotRows(Tail(events)))

\* A file of the snapshot folder: whether it can be opened and read, whether
\* its text is JSON, and the document json.load returns.
GoodFile(doc) == [io |-> "ok", json |-> "ok", doc |-> doc]

\* lines 28-78: open + json.load raise OSError / JSONDecodeError
normalize_snapshot_file(file) ==
    IF file.io # "ok" THEN Fail("OSError")
    ELSE IF file.json # "ok" THEN Fail("JSONDecodeError")
    ELSE SnapshotRows(Get(file.doc, "events", <<>>))

(***************************************************************************)
(* Converter check: the argument is drawn, the call is one step.           *)
(***************************************************************************)
\* odds for which 100 / |odds| is next to half a unit of the 4th decimal place
LongOdds == { 1999999, 2000001 }

OddsInputs ==
    {JInt(i) : i \in (-MaxOdds)..MaxOdds} \cup {None}
        \cup {JInt(i) : i \in LongOdds} \cup {JInt(-i) : i \in LongOdds}

NoCall == [done |-> FALSE, exc |-> "none", val |-> None, rounded |-> None]
NoResult == [done |-> FALSE, exc |-> "none", rows |-> <<>>]

\* line 8: sport = "basketball_nba", when the module is loaded
ModuleLoaded == sport = JStr("basketball_nba")

\* No snapshot tool has been run: no key file, nothing printed.
Absent == [absent |-> TRUE]
\* a file that exists, with what it holds
File(content) == [content |-> content]
KeyIdle == key_file = Absent /\ stdout = <<>>
SelIdle == selections_file = Absent
SnapIdle ==
    /\ argv = None
    /\ categories = <<>>
    /\ active_categories = <<>>
    /\ snap_pc = "idle"
    /\ sel_pos = 0
    /\ cat_pos = 0
    /\ attempts = <<>>
    /\ out_files = {}
    /\ snap_exc = "none"
SnifferIdle ==
    /\ param_depth = "basic"
    /\ apis = <<>>
    /\ api_pos = 0
    /\ sniff_pc = "idle"
    /\ probes = 0
    /\ results = <<>>
    /\ sniff_exc = "none"
OddsApiIdle ==
    /\ sports_arg = <<>>
    /\ fetch_pos = 0
    /\ fetch_pc = "idle"
    /\ disk = <<>>
    /\ fetch_exc = "none"
ToolsIdle == KeyIdle /\ SelIdle /\ SnapIdle /\ SnifferIdle /\ OddsApiIdle

ConvIdle == odds = None /\ conv = NoCall
FlatIdle == snapshot = [events |-> <<>>] /\ result = NoResult
BatchIdle ==
    /\ listing = <<>>
    /\ files = <<>>
    /\ outdir = FALSE
    /\ normalized = <<>>
    /\ pc = "idle"
    /\ pos = 0
    /\ normalized_rows = <<>>
    /\ exc = "none"

InitConvert ==
    /\ ModuleLoaded
    /\ ToolsIdle
    /\ odds \in OddsInputs
    /\ conv = NoCall
    /\ FlatIdle
    /\ BatchIdle

ConvertOdds ==
    /\ ~conv.done
    /\ conv' = [done |-> TRUE, rounded |-> None] @@ american_to_decimal(odds)
    /\ UNCHANGED <<sport, toolVars, odds, flatVars, batchVars>>

\* line 70: "decimal_odds": round(decimal_odds, 4)
RoundDecimal ==
    /\ conv.done
    /\ conv.exc = "none"
    /\ conv.rounded = None
    /\ conv' = [conv EXCEPT !.rounded = JFloat(Round4(conv.val))]
    /\ UNCHANGED <<sport, toolVars, odds, flatVars, batchVars>>

NextConvert ==
    \/ ConvertOdds
    \/ RoundDecimal

SpecConvert == InitConvert /\ [][NextConvert]_vars

(***************************************************************************)
(* Flattener check: the snapshot tools write a document event by event,    *)
(* bookmaker by bookmaker, market by market, outcome by outcome (each      *)
(* appended to the last open list); normalize_snapshot_file is one step    *)
(* on the document as it then stands.                                      *)
(***************************************************************************)
EventHeads ==
    { [id |-> JStr("e1"), sport_key |-> JStr("basketball_nba"),
       commence_time |-> JStr("t1"), bookmakers |-> <<>>],
      [id |-> JStr("e2"), sport_key |-> JStr("icehockey_nhl"), bookmakers |-> <<>>],
      [commence_time |-> JStr("t3"), bookmakers |-> <<>>] }

\* The k-th bookmaker of an event and the j-th market of a bookmaker are
\* fixed by their position: every second one lacks a field.
BookHeadAt(k) ==
    IF k % 2 = 1
    THEN [key |-> JStr("draftkings"), last_update |-> JStr("u1"), markets |-> <<>>]
    ELSE [key |-> JStr("fanduel"), markets |-> <<>>]

MarketHeadAt(j) ==
    IF j % 2 = 1
    THEN [key |-> JStr("h2h"), outcomes |-> <<>>]
    ELSE [outcomes |-> <<>>]

OutcomeSet ==
    { [name |-> JStr("Home"), price |-> JInt(150)],
      [name |-> JStr("Home"), price |-> JInt(-200)],
      [name |-> JStr("Away"), price |-> JInt(0)],
      [name |-> JStr("Draw")] }

RECURSIVE Flat(_, _)
Flat(seq, key) ==
    IF seq = <<>> THEN <<>> ELSE Get(Head(seq), key, <<>>) \o Flat(Tail(seq), key)

AllEvents(doc) == Get(doc, "events", <<>>)
AllBookmakers(doc) == Flat(AllEvents(doc), "bookmakers")
AllMarkets(doc) == Flat(AllBookmakers(doc), "markets")
AllOutcomes(doc) == Flat(AllMarkets(doc), "outcomes")
Nodes(doc) ==
    Len(AllEvents(doc)) + Len(AllBookmakers(doc))
        + Len(AllMarkets(doc)) + Len(AllOutcomes(doc))

InitFlatten ==
    /\ ModuleLoaded
    /\ ToolsIdle
    /\ ConvIdle
    /\ snapshot \in { [events |-> <<>>], [timestamp |-> JStr("t0")],
                       [events |-> << [id |-> JStr("e0")] >>] }
    /\ result = NoResult
    /\ BatchIdle

CanGrow == ~result.done /\ Nodes(snapshot) < MaxNodes

AddEvent ==
    /\ CanGrow
    /\ "events" \in DOMAIN snapshot
    /\ \E h \in EventHeads :
           snapshot' = [snapshot EXCEPT !.events = Append(@, h)]
    /\ UNCHANGED <<sport, toolVars, convVars, result, batchVars>>

AddBookmaker ==
    /\ CanGrow
    /\ "events" \in DOMAIN snapshot
    /\ LET es == snapshot.events
           n == Len(es)
       IN  /\ n > 0
           /\ "bookmakers" \in DOMAIN es[n]
           /\ snapshot' = [snapshot EXCEPT !.events[n].bookmakers =
                               Append(@, BookHeadAt(Len(@) + 1))]
    /\ UNCHANGED <<sport, toolVars, convVars, result, batchVars>>

AddMarket ==
    /\ CanGrow
    /\ "events" \in DOMAIN snapshot
    /\ LET es == snapshot.events
           n == Len(es)
       IN  /\ n > 0
           /\ "bookmakers" \in DOMAIN es[n]
           /\ LET bs == es[n].bookmakers
                  k == Len(bs)
              IN  /\ k > 0
                  /\ snapshot' = [snapshot EXCEPT
                         !.events[n].bookmakers[k].markets =
                             Append(@, MarketHeadAt(Len(@) + 1))]
    /\ UNCHANGED <<sport, toolVars, convVars, result, batchVars>>

AddOutcome ==
    /\ CanGrow
    /\ "events" \in DOMAIN snapshot
    /\ LET es == snapshot.events
           n == Len(es)
       IN  /\ n > 0
           /\ "bookmakers" \in DOMAIN es[n]
           /\ LET bs == es[n].bookmakers
                  k == Len(bs)
              IN  /\ k > 0
                  /\ LET ms == bs[k].markets
                         j == Len(ms)
                     IN  /\ j > 0
                         /\ Len(ms[j].outcomes) < MaxOutcomes
                         /\ \E o \in OutcomeSet :
                                snapshot' = [snapshot EXCEPT
                                    !.events[n].bookmakers[k].markets[j].outcomes =
                                        Append(@, o)]
    /\ UNCHANGED <<sport, toolVars, convVars, result, batchVars>>

NormalizeSnapshot ==
    /\ ~result.done
    /\ result' = [done |-> TRUE] @@ normalize_snapshot_file(GoodFile(snapshot))
    /\ UNCHANGED <<sport, toolVars, convVars, snapshot, batchVars>>

NextFlatten ==
    \/ AddEvent
    \/ AddBookmaker
    \/ AddMarket
    \/ AddOutcome
    \/ NormalizeSnapshot

SpecFlatten == InitFlatten /\ [][NextFlatten]_vars

(***************************************************************************)
(* Market check: a snapshot of one market, its prices drawn from odds for  *)
(* which the order of rounding and dividing shows: +150 and -200 convert   *)
(* exactly, +105 and -275 do not.  normalize_snapshot_file is one step.    *)
(***************************************************************************)
MarketPrices == {150, -200, 105, -275}

PriceLists == UNION { [1..n -> MarketPrices] : n \in 1..MaxOutcomes }

MarketDoc(prices) ==
    [events |-> <<
        [id |-> JStr("e1"), sport_key |-> JStr("basketball_nba"),
         commence_time |-> JStr("t1"),
         bookmakers |-> <<
            [key |-> JStr("draftkings"), last_update |-> JStr("u1"),
             markets |-> <<
                [key |-> JStr("h2h"),
                 outcomes |-> [i \in 1..Len(prices) |->
                                  [name |-> JStr(IF i % 2 = 1 THEN "Home" ELSE "Away"),
                                   price |-> JInt(prices[i])]]] >>] >>] >>]

InitMarket ==
    /\ ModuleLoaded
    /\ ToolsIdle
    /\ ConvIdle
    /\ snapshot \in { MarketDoc(prices) : prices \in PriceLists }
    /\ result = NoResult
    /\ BatchIdle

NextMarket == NormalizeSnapshot

SpecMarket == InitMarket /\ [][NextMarket]_vars

(***************************************************************************)
(* src/normaliz_odds.py: normalize_all_snapshots, one step per statement   *)
(* that reads or writes a file.  An exception that leaves the function     *)
(* ends the run (nothing in the module catches one).  Line 102 is read     *)
(* with the indentation of line 103.                                       *)
(*                                                                         *)
(* A file name is a sequence of tokens, <<"a", ".json">> for a.json, and a *)
(* path is the folder's tokens followed by the name's.                     *)
(***************************************************************************)
SNAPSHOT_FOLDER == <<"snapshots", "/">>
NORMALIZED_FOLDER == <<"normalized", "/">>

\* filename.endswith(".json")
EndsWithJson(filename) == filename # <<>> /\ filename[Len(filename)] = ".json"

\* os.path.join(NORMALIZED_FOLDER, filename)
JsonFile(filename) == NORMALIZED_FOLDER \o filename

\* json_file.replace(".json", ".csv"): every occurrence is replaced
CsvFile(json_file) ==
    [k \in 1..Len(json_file) |-> IF json_file[k] = ".json" THEN ".csv" ELSE json_file[k]]

\* the keys of a row, in insertion order (lines 62-74)
FieldNames ==
    <<"event_id", "sport", "commence_time", "bookmaker", "market", "outcome",
      "american_odds", "decimal_odds", "implied_probability", "fair_probability",
      "last_update">>

JsonContent(rows) == [kind |-> "json", rows |-> rows]

\* csv writes str(value) for a value and the empty field for None (the text
\* of a value is kept as the value)
CsvCell(value) == IF value = None THEN JStr("") ELSE value

\* Mutant: the columns are the row's keys in alphabetical order
CsvContent_SortedKeys(rows) ==
    LET sorted == <<"american_odds", "bookmaker", "commence_time", "decimal_odds",
                    "event_id", "fair_probability", "implied_probability",
                    "last_update", "market", "outcome", "sport">>
    IN  [kind |-> "csv",
         header |-> sorted,
         rows |-> [r \in 1..Len(rows) |->
                      [c \in 1..Len(sorted) |-> CsvCell(rows[r][sorted[c]])]]]

\* lines 99-101: DictWriter(f, fieldnames=normalized_rows[0].keys()),
\* writeheader() and writerows(normalized_rows): a header line, then a line
\* per row with the row's values in the order of the header
CsvContent(rows) ==
    [kind |-> "csv",
     header |-> FieldNames,
     rows |-> [r \in 1..Len(rows) |->
                  [c \in 1..Len(FieldNames) |-> CsvCell(rows[r][FieldNames[c]])]]]

\* The documents the files of the snapshot folder are drawn from
DocGood ==
    [events |-> <<
        [id |-> JStr("e1"), sport_key |-> JStr("icehockey_nhl"),
         commence_time |-> JStr("t1"),
         bookmakers |-> <<
            [key |-> JStr("draftkings"),
             markets |-> <<
                [key |-> JStr("h2h"),
                 outcomes |-> << [name |-> JStr("Home"), price |-> JInt(150)],
                                 [name |-> JStr("Away"), price |-> JInt(-200)] >>] >>] >>] >>]

DocEmpty == [events |-> <<>>]

DocWith(outcome) ==
    [events |-> <<
        [id |-> JStr("e2"), sport_key |-> JStr("icehockey_nhl"),
         bookmakers |-> <<
            [key |-> JStr("fanduel"),
             markets |-> <<
                [key |-> JStr("h2h"),
                 outcomes |-> << [name |-> JStr("Home"), price |-> JInt(-200)],
                                 outcome >>] >>] >>] >>]

DocZeroPrice == DocWith([name |-> JStr("Away"), price |-> JInt(0)])
DocNoPrice == DocWith([name |-> JStr("Away")])

MalformedFile == [io |-> "ok", json |-> "malformed", doc |-> DocEmpty]
UnreadableFile == [io |-> "error", json |-> "ok", doc |-> DocEmpty]

FileContents ==
    { GoodFile(DocGood), GoodFile(DocEmpty), GoodFile(DocZeroPrice),
      GoodFile(DocNoPrice), MalformedFile, UnreadableFile }

\* a.json, b.json, c.json, notes.txt, a.json.json and a.csv.json
FileNames ==
    { <<"a", ".json">>, <<"b", ".json">>, <<"c", ".json">>, <<"notes", ".txt">>,
      <<"a", ".json", ".json">>, <<"a", ".csv", ".json">> }

Range(seq) == { seq[k] : k \in 1..Len(seq) }

\* the listings of at most MaxFiles files: sequences without repetition
Listings ==
    UNION { { l \in [1..n -> FileNames] : \A j, k \in 1..n : j # k => l[j] # l[k] } :
            n \in 0..MaxFiles }

InitBatch ==
    /\ ModuleLoaded
    /\ ToolsIdle
    /\ ConvIdle
    /\ FlatIdle
    /\ listing \in Listings
    /\ files \in [Range(listing) -> FileContents]
    /\ outdir \in BOOLEAN
    /\ normalized = <<>>
    /\ pc = "makedirs"
    /\ pos = 0
    /\ normalized_rows = <<>>
    /\ exc = "none"

\* line 81: os.makedirs(NORMALIZED_FOLDER, exist_ok=True)
MakeDirs ==
    /\ pc = "makedirs"
    /\ outdir' = TRUE
    /\ pc' = "loop"
    /\ pos' = 1
    /\ UNCHANGED <<sport, toolVars, convVars, flatVars, listing, files, normalized, normalized_rows, exc>>

\* lines 83-85: a file whose name does not end in .json is passed over
SkipFile ==
    /\ pc = "loop"
    /\ pos <= Len(listing)
    /\ ~EndsWithJson(listing[pos])
    /\ pos' = pos + 1
    /\ UNCHANGED <<sport, toolVars, convVars, flatVars, listing, files, outdir, normalized, pc,
                   normalized_rows, exc>>

\* the sport_key of the last event of a file that parses, else the value given
LastSport(file, value) ==
    IF file.io = "ok" /\ file.json = "ok" /\ Get(file.doc, "events", <<>>) # <<>>
    THEN Get(file.doc.events[Len(file.doc.events)], "sport_key", None)
    ELSE value

\* Mutant: normalize_snapshot_file declares `global sport`, so that line 36
\* assigns the module-level variable
NormalizeFile_GlobalSport ==
    /\ pc = "loop"
    /\ pos <= Len(listing)
    /\ EndsWithJson(listing[pos])
    /\ \E r \in {normalize_snapshot_file(files[listing[pos]])} :
           /\ pc' = IF r.exc # "none" THEN "crashed" ELSE "write_json"
           /\ exc' = r.exc
           /\ normalized_rows' = IF r.exc # "none" THEN normalized_rows ELSE r.rows
    /\ sport' = LastSport(files[listing[pos]], sport)
    /\ UNCHANGED <<toolVars, convVars, flatVars, listing, files, outdir, normalized, pos>>

\* line 88: normalized_rows = normalize_snapshot_file(filename); an exception
\* leaves normalize_all_snapshots
NormalizeFile ==
    /\ pc = "loop"
    /\ pos <= Len(listing)
    /\ EndsWithJson(listing[pos])
    /\ \E r \in {normalize_snapshot_file(files[listing[pos]])} :
           /\ pc' = IF r.exc # "none" THEN "crashed" ELSE "write_json"
           /\ exc' = r.exc
           /\ normalized_rows' = IF r.exc # "none" THEN normalized_rows ELSE r.rows
    /\ UNCHANGED <<sport, toolVars, convVars, flatVars, listing, files, outdir, normalized, pos>>

\* the rows a JSON file of the folder holds, none when there is no such file
RowsIn(folder, path) == IF path \in DOMAIN folder THEN folder[path].rows ELSE <<>>

\* Mutant: the JSON file is opened for appending
WriteJson_Appends ==
    /\ pc = "write_json"
    /\ normalized' =
           (JsonFile(listing[pos]) :>
                JsonContent(RowsIn(normalized, JsonFile(listing[pos])) \o normalized_rows))
               @@ normalized
    /\ pc' = "write_csv"
    /\ UNCHANGED <<sport, toolVars, convVars, flatVars, listing, files, outdir, pos, normalized_rows, exc>>

\* lines 91-93: the JSON file is written
WriteJson ==
    /\ pc = "write_json"
    /\ normalized' = (JsonFile(listing[pos]) :> JsonContent(normalized_rows)) @@ normalized
    /\ pc' = "write_csv"
    /\ UNCHANGED <<sport, toolVars, convVars, flatVars, listing, files, outdir, pos, normalized_rows, exc>>

\* lines 92-93: open(json_file, "w") raises OSError
WriteJsonFails ==
    /\ pc = "write_json"
    /\ pc' = "crashed"
    /\ exc' = "OSError"
    /\ UNCHANGED <<sport, toolVars, convVars, flatVars, listing, files, outdir, normalized, pos,
                   normalized_rows>>

\* lines 96-101: the CSV file is written when there are rows
WriteCsv ==
    /\ pc = "write_csv"
    /\ normalized_rows # <<>>
    /\ normalized' =
           (CsvFile(JsonFile(listing[pos])) :> CsvContent(normalized_rows)) @@ normalized
    /\ pc' = "loop"
    /\ pos' = pos + 1
    /\ UNCHANGED <<sport, toolVars, convVars, flatVars, listing, files, outdir, normalized_rows, exc>>

\* Mutant: without the test of line 97, a CSV file of no rows is written
SkipCsv_WritesHeader ==
    /\ pc = "write_csv"
    /\ normalized_rows = <<>>
    /\ normalized' =
           (CsvFile(JsonFile(listing[pos])) :> CsvContent(normalized_rows)) @@ normalized
    /\ pc' = "loop"
    /\ pos' = pos + 1
    /\ UNCHANGED <<sport, toolVars, convVars, flatVars, listing, files, outdir, normalized_rows, exc>>

\* line 97: `if normalized_rows:` is false
SkipCsv ==
    /\ pc = "write_csv"
    /\ normalized_rows = <<>>
    /\ pc' = "loop"
    /\ pos' = pos + 1
    /\ UNCHANGED <<sport, toolVars, convVars, flatVars, listing, files, outdir, normalized,
                   normalized_rows, exc>>

\* line 98: open(csv_file, "w") raises OSError
WriteCsvFails ==
    /\ pc = "write_csv"
    /\ normalized_rows # <<>>
    /\ pc' = "crashed"
    /\ exc' = "OSError"
    /\ UNCHANGED <<sport, toolVars, convVars, flatVars, listing, files, outdir, normalized, pos,
                   normalized_rows>>

\* line 83: the listing is exhausted
Finish ==
    /\ pc = "loop"
    /\ pos > Len(listing)
    /\ pc' = "done"
    /\ UNCHANGED <<sport, toolVars, convVars, flatVars, listing, files, outdir, normalized, pos,
                   normalized_rows, exc>>

NextBatch ==
    \/ MakeDirs
    \/ SkipFile
    \/ NormalizeFile
    \/ WriteJson
    \/ WriteJsonFails
    \/ WriteCsv
    \/ SkipCsv
    \/ WriteCsvFails
    \/ Finish

Spec == InitBatch /\ [][NextBatch]_vars

(***************************************************************************)
(* Repeated batch runs.  The script is run again after a run has ended     *)
(* (line 105 is the whole of its top level); between two runs a snapshot   *)
(* file may have been rewritten.  The folder NORMALIZED_FOLDER is what the *)
(* earlier runs left: nothing in the module removes a file.                *)
(***************************************************************************)
MaxRerunFiles == 2

RerunContents == { GoodFile(DocGood), GoodFile(DocEmpty), GoodFile(DocZeroPrice) }

\* listings of at most MaxRerunFiles files named stem + suffix
RerunListings ==
    { l \in Listings : Len(l) <= MaxRerunFiles /\ \A k \in 1..Len(l) : Len(l[k]) = 2 }

InitRerun ==
    /\ ModuleLoaded
    /\ ToolsIdle
    /\ ConvIdle
    /\ FlatIdle
    /\ listing \in RerunListings
    /\ files \in [Range(listing) -> RerunContents]
    /\ outdir \in BOOLEAN
    /\ normalized = <<>>
    /\ pc = "makedirs"
    /\ pos = 0
    /\ normalized_rows = <<>>
    /\ exc = "none"

\* the snapshot folder as it is when the script is started again: as it was,
\* or with one file rewritten
Rewritten == {files} \cup { [files EXCEPT ![f] = c] : f \in DOMAIN files, c \in RerunContents }

\* line 105, once more: normalize_all_snapshots() starts from its first line
RunAgain ==
    /\ pc \in {"done", "crashed"}
    /\ files' \in Rewritten
    /\ pc' = "makedirs"
    /\ pos' = 0
    /\ normalized_rows' = <<>>
    /\ exc' = "none"
    /\ UNCHANGED <<sport, toolVars, convVars, flatVars, listing, outdir, normalized>>

NextRerun ==
    \/ NextBatch
    \/ RunAgain

SpecRerun == InitRerun /\ [][NextRerun]_vars

(***************************************************************************)
(* Properties of the converter (SpecConvert)                               *)
(***************************************************************************)

\* C1: for every nonzero integer o, american_to_decimal(o) returns 1 + o/100
\* when o > 0 and 1 + 100/|o| when o < 0 (the equalities cross-multiplied;
\* for o < 0 as val - 1 = 100/|o|, which keeps the products small).
C1_AmericanToDecimal ==
    (conv.done /\ IsInt(odds) /\ odds.int # 0) =>
        /\ conv.exc = "none"
        /\ odds.int > 0 => conv.val.n * 100 = (100 + odds.int) * conv.val.d
        /\ odds.int < 0 => (conv.val.n - conv.val.d) * (-odds.int) = 100 * conv.val.d

\* -200 has been converted, to 3/2
C1_Witness == conv.done /\ odds = JInt(-200) /\ conv.exc = "none" /\ conv.val = [n |-> 3, d |-> 2]

\* C6: converting the value 0 fails with an InvalidOdds error, never with a
\* division by zero.
C6_ZeroIsInvalidOdds ==
    (conv.done /\ odds = JInt(0)) => conv.exc = "InvalidOdds"

Returned == result.done /\ result.exc = "none"

\* the decimal odds section 4.1 of the specification gives for o # 0
ExpectedDecimal(o) == IF o > 0 THEN Rat(100 + o, 100) ELSE Rat((-o) + 100, -o)

HasNonzeroPrice(outcome) ==
    /\ "price" \in DOMAIN outcome
    /\ IsInt(outcome.price)
    /\ outcome.price.int # 0

ValidPrices(outcomes) ==
    \A i \in 1..Len(outcomes) : HasNonzeroPrice(outcomes[i])

\* the rows of the j-th market of the document, in document order: the rows
\* after those of the markets before it
RowsOfMarket(j) ==
    LET ms == AllMarkets(snapshot)
        off == Len(Flat(SubSeq(ms, 1, j - 1), "outcomes"))
    IN  SubSeq(result.rows, off + 1, off + Len(Get(ms[j], "outcomes", <<>>)))

FairSum(rows) == RSum([k \in 1..Len(rows) |-> rows[k].fair_probability.float])

FairSumError(j) == RAbs(RSub(FairSum(RowsOfMarket(j)), RInt(1)))

\* C2 as stated: for every market with at least one outcome and all prices
\* nonzero, the fair_probability fields of its records sum to 1.0 within 1e-6.
C2_FairSumWithin1e6 ==
    Returned =>
        \A j \in 1..Len(AllMarkets(snapshot)) :
            LET outcomes == Get(AllMarkets(snapshot)[j], "outcomes", <<>>)
            IN  (Len(outcomes) >= 1 /\ ValidPrices(outcomes)) =>
                    RLeq(FairSumError(j), Rat(1, 1000000))

\* C2 amended: the fair_probability fields are rounded to 4 places, so for a
\* market of n >= 1 outcomes they sum to 1.0 within n * 0.00005.
C2_FairSumWithinRounding ==
    Returned =>
        \A j \in 1..Len(AllMarkets(snapshot)) :
            LET outcomes == Get(AllMarkets(snapshot)[j], "outcomes", <<>>)
            IN  (Len(outcomes) >= 1 /\ ValidPrices(outcomes)) =>
                    RLeq(FairSumError(j), Rat(5 * Len(outcomes), 100000))

\* a market of three outcomes has been normalised and its rounded fair
\* probabilities do not sum to 1.0 exactly
C2_Witness ==
    /\ Returned
    /\ \E j \in 1..Len(AllMarkets(snapshot)) :
           /\ Len(Get(AllMarkets(snapshot)[j], "outcomes", <<>>)) = 3
           /\ FairSumError(j).n # 0

\* the index paths <<event, bookmaker, market, outcome>> of the outcomes
Paths(doc) ==
    LET es == AllEvents(doc)
    IN  UNION { LET bs == Get(es[e], "bookmakers", <<>>)
                IN  UNION { LET ms == Get(bs[b], "markets", <<>>)
                            IN  UNION { { <<e, b, m, o>> :
                                            o \in 1..Len(Get(ms[m], "outcomes", <<>>)) } :
                                        m \in 1..Len(ms) } :
                            b \in 1..Len(bs) } :
                e \in 1..Len(es) }

LexLess(p, q) ==
    \E i \in 1..4 : p[i] < q[i] /\ \A k \in 1..(i - 1) : p[k] = q[k]

Rank(doc, p) == Cardinality({ q \in Paths(doc) : LexLess(q, p) }) + 1

\* C3: normalize_snapshot_file returns exactly one record per outcome, and
\* the record of an outcome carries the id, sport_key and commence_time of its
\* event, the key and last_update of its bookmaker, the key of its market and
\* the name and price of the outcome (None for a missing field).
C3_OneRecordPerOutcome ==
    Returned =>
        /\ Len(result.rows) = Cardinality(Paths(snapshot))
        /\ \A p \in Paths(snapshot) :
               LET event == AllEvents(snapshot)[p[1]]
                   bookmaker == event.bookmakers[p[2]]
                   market == bookmaker.markets[p[3]]
                   outcome == market.outcomes[p[4]]
                   row == result.rows[Rank(snapshot, p)]
               IN  /\ row.event_id = Get(event, "id", None)
                   /\ row.sport = Get(event, "sport_key", None)
                   /\ row.commence_time = Get(event, "commence_time", None)
                   /\ row.bookmaker = Get(bookmaker, "key", None)
                   /\ row.last_update = Get(bookmaker, "last_update", None)
                   /\ row.market = Get(market, "key", None)
                   /\ row.outcome = Get(outcome, "name", None)
                   /\ row.american_odds = Get(outcome, "price", None)

\* records of two events, of different sports, have been returned
C3_Witness ==
    /\ Returned
    /\ Len(result.rows) >= 2
    /\ \E p, q \in Paths(snapshot) : p[1] # q[1]
    /\ result.rows[1].sport # result.rows[Len(result.rows)].sport

\* C4 as stated: a market with a single outcome gives a record with
\* fair_probability = implied_probability = 1/decimal_odds.
C4_SingleOutcomeNoOp ==
    Returned =>
        \A j \in 1..Len(AllMarkets(snapshot)) :
            LET outcomes == Get(AllMarkets(snapshot)[j], "outcomes", <<>>)
                row == RowsOfMarket(j)[1]
            IN  Len(outcomes) = 1 =>
                    /\ row.fair_probability = row.implied_probability
                    /\ row.implied_probability =
                           JFloat(Round4(RDiv(RInt(1), ExpectedDecimal(outcomes[1].price.int))))

\* C4 amended: a market with a single outcome gives a record whose
\* fair_probability is 1.0 (its implied probability divided by itself) and
\* whose implied_probability is 1/decimal odds rounded to 4 places.
C4_SingleOutcomeFairIsOne ==
    Returned =>
        \A j \in 1..Len(AllMarkets(snapshot)) :
            LET outcomes == Get(AllMarkets(snapshot)[j], "outcomes", <<>>)
                row == RowsOfMarket(j)[1]
            IN  Len(outcomes) = 1 =>
                    /\ row.fair_probability = JFloat(RInt(1))
                    /\ row.implied_probability =
                           JFloat(Round4(RDiv(RInt(1), ExpectedDecimal(outcomes[1].price.int))))

\* a market whose single outcome has price -200 has been normalised
C4_Witness ==
    /\ Returned
    /\ \E j \in 1..Len(AllMarkets(snapshot)) :
           /\ Len(Get(AllMarkets(snapshot)[j], "outcomes", <<>>)) = 1
           /\ RowsOfMarket(j)[1].american_odds = JInt(-200)
           /\ RowsOfMarket(j)[1].implied_probability = JFloat(Rat(6667, 10000))

\* C5: a missing field (an absent price included) never aborts the call: when
\* no price is zero, every outcome of the file is emitted.
C5_MissingFieldIsNull ==
    (result.done /\ \A i \in 1..Len(AllOutcomes(snapshot)) :
                        "price" \in DOMAIN AllOutcomes(snapshot)[i] =>
                            HasNonzeroPrice(AllOutcomes(snapshot)[i])) =>
        /\ result.exc = "none"
        /\ Len(result.rows) = Len(AllOutcomes(snapshot))

\* the document without its markets of zero outcomes
NonEmptyMarkets(markets) ==
    SelectSeq(markets, LAMBDA m : Get(m, "outcomes", <<>>) # <<>>)

WithoutEmptyMarkets(doc) ==
    [events |->
        [e \in 1..Len(AllEvents(doc)) |->
            LET event == AllEvents(doc)[e]
            IN  IF "bookmakers" \notin DOMAIN event THEN event
                ELSE [event EXCEPT !.bookmakers =
                        [b \in 1..Len(@) |->
                            [@[b] EXCEPT !.markets = NonEmptyMarkets(@)]]]]]

HasEmptyMarket(doc) ==
    \E j \in 1..Len(AllMarkets(doc)) : Get(AllMarkets(doc)[j], "outcomes", <<>>) = <<>>

\* C10: a market with zero outcomes raises no error and produces no record,
\* and the records of the other markets are those the snapshot gives without
\* the empty market.
C10_EmptyMarket ==
    (result.done /\ HasEmptyMarket(snapshot) /\ ValidPrices(AllOutcomes(snapshot))) =>
        /\ result.exc = "none"
        /\ Len(result.rows) = Len(AllOutcomes(snapshot))
        /\ result.rows = normalize_snapshot_file(GoodFile(WithoutEmptyMarkets(snapshot))).rows

\* a snapshot with an empty market and a market of two outcomes has been
\* normalised
C10_Witness ==
    /\ Returned
    /\ HasEmptyMarket(snapshot)
    /\ Len(result.rows) = 2

\* the implied probability of a price and its share of a market, computed from
\* the price alone
ExpectedImplied(o) == RDiv(RInt(1), ExpectedDecimal(o))

ExpectedFair(outcomes, i) ==
    RDiv(ExpectedImplied(outcomes[i].price.int),
         RSum([k \in 1..Len(outcomes) |-> ExpectedImplied(outcomes[k].price.int)]))

\* C13: in every market the record at index i carries the name and price of
\* outcome i and the decimal odds, implied probability and fair probability
\* of outcome i's own price, whatever names and prices the outcomes share.
C13_ListsAligned ==
    Returned =>
        \A j \in 1..Len(AllMarkets(snapshot)) :
            LET outcomes == Get(AllMarkets(snapshot)[j], "outcomes", <<>>)
                rows == RowsOfMarket(j)
            IN  \A i \in 1..Len(outcomes) :
                    /\ rows[i].outcome = Get(outcomes[i], "name", None)
                    /\ rows[i].american_odds = outcomes[i].price
                    /\ rows[i].decimal_odds =
                           JFloat(Round4(ExpectedDecimal(outcomes[i].price.int)))
                    /\ rows[i].implied_probability =
                           JFloat(Round4(ExpectedImplied(outcomes[i].price.int)))
                    /\ rows[i].fair_probability = JFloat(Round4(ExpectedFair(outcomes, i)))

\* a market of three outcomes of one name has been normalised, the first and
\* the third of one price and the second of another
C13_Witness ==
    /\ Returned
    /\ \E j \in 1..Len(AllMarkets(snapshot)) :
           LET outcomes == Get(AllMarkets(snapshot)[j], "outcomes", <<>>)
           IN  /\ Len(outcomes) = 3
               /\ outcomes[1] = outcomes[3]
               /\ outcomes[1].name = outcomes[2].name
               /\ outcomes[1].price # outcomes[2].price
               /\ RowsOfMarket(j)[1].decimal_odds # RowsOfMarket(j)[2].decimal_odds

\* C16: the sport of every record is the sport_key of the event it comes
\* from, None when that event has none: not the module-level sport, and not
\* the sport_key of an event before it, whatever sports the snapshot mixes.
C16_SportOfOwnEvent ==
    Returned =>
        \A p \in Paths(snapshot) :
            LET events == AllEvents(snapshot)
                row == result.rows[Rank(snapshot, p)]
            IN  /\ row.sport = Get(events[p[1]], "sport_key", None)
                /\ "sport_key" \notin DOMAIN events[p[1]] =>
                       /\ row.sport = None
                       /\ row.sport # sport
                /\ \A e \in 1..(p[1] - 1) :
                       Get(events[e], "sport_key", None) # Get(events[p[1]], "sport_key", None)
                           => row.sport # Get(events[e], "sport_key", None)

\* records of two events have been returned: the first event's sport_key is
\* the module-level sport, the second event has no sport_key and its record
\* has sport None
C16_Witness ==
    /\ Returned
    /\ \E p, q \in Paths(snapshot) :
           /\ p[1] < q[1]
           /\ Get(AllEvents(snapshot)[p[1]], "sport_key", None) = sport
           /\ "sport_key" \notin DOMAIN AllEvents(snapshot)[q[1]]
           /\ result.rows[Rank(snapshot, p)].sport = sport
           /\ result.rows[Rank(snapshot, q)].sport = None

\* what a record copies from the document, and the same for the outcome at
\* an index path
RowIdentity(row) ==
    <<row.event_id, row.bookmaker, row.market, row.outcome, row.american_odds>>

Identity(doc, p) ==
    LET event == AllEvents(doc)[p[1]]
        bookmaker == event.bookmakers[p[2]]
        market == bookmaker.markets[p[3]]
        outcome == market.outcomes[p[4]]
    IN  <<Get(event, "id", None), Get(bookmaker, "key", None), Get(market, "key", None),
          Get(outcome, "name", None), Get(outcome, "price", None)>>

\* C18: the records are in the order of the traversal: the records can be
\* matched one to one with the outcomes they copy so that a record precedes
\* another exactly when its outcome's (event, bookmaker, market, outcome)
\* index path is lexicographically smaller.
C18_TraversalOrder ==
    Returned =>
        \E f \in [Paths(snapshot) -> 1..Len(result.rows)] :
            /\ \A p \in Paths(snapshot) :
                   RowIdentity(result.rows[f[p]]) = Identity(snapshot, p)
            /\ \A p, q \in Paths(snapshot) : LexLess(p, q) <=> f[p] < f[q]

\* records of three outcomes have been returned, the second outcome of one
\* market before the first outcome of a later one, and the first and the last
\* record copy different outcomes
C18_Witness ==
    /\ Returned
    /\ Len(result.rows) >= 3
    /\ \E p, q \in Paths(snapshot) : LexLess(p, q) /\ p[4] > q[4]
    /\ RowIdentity(result.rows[1]) # RowIdentity(result.rows[Len(result.rows)])

(***************************************************************************)
(* Properties of the rounding (SpecMarket)                                 *)
(***************************************************************************)

\* v is x rounded to 4 decimal places: a whole number of units of 1/10000,
\* within half a unit of x
IsRounded4(v, x) ==
    /\ 10000 % v.d = 0
    /\ 2 * Abs(v.n * (10000 \div v.d) * x.d - 10000 * x.n) <= x.d

\* C14: in every record decimal_odds is the converted price rounded to 4
\* places, implied_probability is 1/decimal of the unrounded decimal odds
\* rounded to 4 places, and fair_probability is the unrounded implied
\* probability over the sum of the market's unrounded implied probabilities,
\* rounded to 4 places; +150 and -200 in one market give 2.5 and 1.5, 0.4 and
\* 0.6667, 0.375 and 0.625.
C14_RoundedFromUnrounded ==
    Returned =>
        LET outcomes == AllOutcomes(snapshot)
            rows == result.rows
        IN  /\ Len(rows) = Len(outcomes)
            /\ \A i \in 1..Len(outcomes) :
                   /\ IsRounded4(rows[i].decimal_odds.float,
                                 ExpectedDecimal(outcomes[i].price.int))
                   /\ IsRounded4(rows[i].implied_probability.float,
                                 ExpectedImplied(outcomes[i].price.int))
                   /\ IsRounded4(rows[i].fair_probability.float, ExpectedFair(outcomes, i))
            /\ (Len(outcomes) = 2 /\ outcomes[1].price = JInt(150)
                    /\ outcomes[2].price = JInt(-200)) =>
                   /\ rows[1].decimal_odds = JFloat(Rat(25, 10))
                   /\ rows[2].decimal_odds = JFloat(Rat(15, 10))
                   /\ rows[1].implied_probability = JFloat(Rat(4, 10))
                   /\ rows[2].implied_probability = JFloat(Rat(6667, 10000))
                   /\ rows[1].fair_probability = JFloat(Rat(375, 1000))
                   /\ rows[2].fair_probability = JFloat(Rat(625, 1000))

\* the market of +150 and +105 has been normalised: the fair probability of
\* +150 is 0.4505 (it would be 0.4506 from the rounded implied probabilities)
C14_Witness ==
    /\ Returned
    /\ Len(result.rows) = 2
    /\ result.rows[1].american_odds = JInt(150)
    /\ result.rows[2].american_odds = JInt(105)
    /\ result.rows[1].fair_probability = JFloat(Rat(4505, 10000))

(***************************************************************************)
(* Properties of the batch run (Spec)                                      *)
(***************************************************************************)
RunEnded == pc \in {"done", "crashed"}

JsonNames == { k \in 1..Len(listing) : EndsWithJson(listing[k]) }

Parses(file) == file.io = "ok" /\ file.json = "ok"
WellFormed(file) == Parses(file) /\ ValidPrices(AllOutcomes(file.doc))

\* the outputs of the k-th file of the listing are those of its own rows
OutputsWritten(k) ==
    LET json_file == JsonFile(listing[k])
        rows == normalize_snapshot_file(files[listing[k]]).rows
    IN  /\ json_file \in DOMAIN normalized
        /\ normalized[json_file] = JsonContent(rows)
        /\ rows # <<>> =>
               /\ CsvFile(json_file) \in DOMAIN normalized
               /\ normalized[CsvFile(json_file)] = CsvContent(rows)

\* the number of outcomes of a document whose price converts
Convertible(doc) ==
    Len(SelectSeq(AllOutcomes(doc), LAMBDA o : HasNonzeroPrice(o)))

\* C7: an outcome with a zero or non-convertible price does not abort the
\* file: when every file parses and no write fails, every file's JSON output
\* is written and holds a record for each of its other outcomes.
C7_BadPriceDoesNotAbort ==
    (RunEnded /\ exc # "OSError" /\ \A k \in JsonNames : Parses(files[listing[k]])) =>
        \A k \in JsonNames :
            /\ JsonFile(listing[k]) \in DOMAIN normalized
            /\ Len(normalized[JsonFile(listing[k])].rows)
                   >= Convertible(files[listing[k]].doc)

\* C8: a file of malformed JSON fails only itself: when every other .json file
\* is well formed and no write fails, the outputs of every one of them are
\* written, wherever the malformed file stands in the listing.
C8_MalformedFailsOnlyItself ==
    (/\ RunEnded
     /\ exc # "OSError"
     /\ \A k \in JsonNames :
            WellFormed(files[listing[k]]) \/ files[listing[k]] = MalformedFile) =>
        \A k \in JsonNames : WellFormed(files[listing[k]]) => OutputsWritten(k)

\* C9: an I/O error (reading a snapshot, writing an output) is fatal only for
\* the file at hand: when every .json file is well formed or unreadable, the
\* outputs of every well-formed file other than the one whose write failed
\* are written.
C9_IOErrorFailsOnlyItsFile ==
    (/\ RunEnded
     /\ \A k \in JsonNames :
            WellFormed(files[listing[k]]) \/ files[listing[k]] = UnreadableFile) =>
        \A k \in JsonNames :
            (WellFormed(files[listing[k]]) /\ ~(pc = "crashed" /\ k = pos)) =>
                OutputsWritten(k)

(***************************************************************************)
(* Properties of repeated batch runs (SpecRerun)                           *)
(***************************************************************************)

\* C11: after any sequence of runs with snapshot files rewritten in between,
\* a run that ends normally leaves, for every .json file, the outputs of its
\* present content and nothing of an earlier run: the JSON and CSV files hold
\* the present rows, and no CSV file is there when the present rows are none.
C11_LatestRunOnly ==
    pc = "done" =>
        \A k \in JsonNames :
            /\ OutputsWritten(k)
            /\ normalize_snapshot_file(files[listing[k]]).rows = <<>> =>
                   CsvFile(JsonFile(listing[k])) \notin DOMAIN normalized

\* the CSV file of the file at hand, as a set of at most one content
CsvAtHand(folder) ==
    { folder[path] : path \in {CsvFile(JsonFile(listing[pos]))} \cap DOMAIN folder }

\* C12: when the rows of the file at hand are none, writing its outputs leaves
\* an empty array in its JSON file and leaves its CSV file as it was: absent
\* when it was absent, of the same content when it was there.
C12_EmptyWritesNoCsv ==
    [][ (/\ normalized_rows = <<>>
         /\ pc \in {"write_json", "write_csv"}
         /\ pc' \in {"write_csv", "loop"}) =>
            /\ JsonFile(listing[pos]) \in DOMAIN normalized'
            /\ normalized'[JsonFile(listing[pos])] = [kind |-> "json", rows |-> <<>>]
            /\ CsvAtHand(normalized') = CsvAtHand(normalized) ]_vars

\* the file before the one at hand gave no rows in this run: its JSON file is
\* an empty array, and the CSV file an earlier run wrote is still there
C12_Witness ==
    /\ pc = "loop"
    /\ pos >= 2
    /\ EndsWithJson(listing[pos - 1])
    /\ normalized_rows = <<>>
    /\ JsonFile(listing[pos - 1]) \in DOMAIN normalized
    /\ normalized[JsonFile(listing[pos - 1])] = JsonContent(<<>>)
    /\ CsvFile(JsonFile(listing[pos - 1])) \in DOMAIN normalized

Stem(filename) == SubSeq(filename, 1, Len(filename) - 1)

\* C19: after a run that ends normally the output folder exists; for every
\* file name.json of the listing normalized/name.json is there and, when the
\* file gives records, normalized/name.csv, name being the file name without
\* its final .json; and nothing else is in the folder (files not ending in
\* .json give no output).
C19_OutputNames ==
    pc = "done" =>
        /\ outdir
        /\ \A k \in JsonNames :
               /\ (NORMALIZED_FOLDER \o Stem(listing[k]) \o <<".json">>) \in DOMAIN normalized
               /\ normalize_snapshot_file(files[listing[k]]).rows # <<>> =>
                      (NORMALIZED_FOLDER \o Stem(listing[k]) \o <<".csv">>) \in DOMAIN normalized
        /\ \A path \in DOMAIN normalized :
               \E k \in JsonNames :
                   \/ path = NORMALIZED_FOLDER \o Stem(listing[k]) \o <<".json">>
                   \/ path = NORMALIZED_FOLDER \o Stem(listing[k]) \o <<".csv">>

\* C20: the CSV file just written has a header of the eleven field names in
\* the order event_id, sport, commence_time, bookmaker, market, outcome,
\* american_odds, decimal_odds, implied_probability, fair_probability,
\* last_update, and then one line per record of the JSON file, in the same
\* order, each cell the record's value of the column's field (the empty field
\* for null).
C20_CsvMirrorsJson ==
    (pc = "loop" /\ pos >= 2 /\ EndsWithJson(listing[pos - 1]) /\ normalized_rows # <<>>) =>
        LET json_file == JsonFile(listing[pos - 1])
            records == normalized[json_file].rows
            csv == normalized[CsvFile(json_file)]
        IN  /\ csv.header = <<"event_id", "sport", "commence_time", "bookmaker", "market",
                              "outcome", "american_odds", "decimal_odds",
                              "implied_probability", "fair_probability", "last_update">>
            /\ Len(csv.rows) = Len(records)
            /\ \A r \in 1..Len(records) :
                   /\ Len(csv.rows[r]) = 11
                   /\ DOMAIN records[r] = Range(csv.header)
                   /\ \A c \in 1..11 :
                          csv.rows[r][c] =
                              IF records[r][csv.header[c]] = None THEN JStr("")
                              ELSE records[r][csv.header[c]]

\* a CSV file of two lines has just been written; the first line's outcome
\* cell is Home, its american_odds cell 150, and its last_update cell is empty
C20_Witness ==
    /\ pc = "loop"
    /\ pos >= 2
    /\ EndsWithJson(listing[pos - 1])
    /\ Len(normalized_rows) = 2
    /\ CsvFile(JsonFile(listing[pos - 1])) \in DOMAIN normalized
    /\ normalized[CsvFile(JsonFile(listing[pos - 1]))].rows[1][6] = JStr("Home")
    /\ normalized[CsvFile(JsonFile(listing[pos - 1]))].rows[1][7] = JInt(150)
    /\ normalized[CsvFile(JsonFile(listing[pos - 1]))].rows[1][11] = JStr("")

(***************************************************************************)
(* Properties of the batch as a whole (Spec)                               *)
(***************************************************************************)

\* C21: the records written for a file are those of its own content, whatever
\* the other files of the batch and wherever it stands in the listing: when
\* no read or write fails, every well-formed .json file of the listing has
\* its JSON output, holding the records its content gives.
C21_FileIndependent ==
    (RunEnded /\ exc # "OSError") =>
        \A k \in JsonNames :
            WellFormed(files[listing[k]]) =>
                /\ JsonFile(listing[k]) \in DOMAIN normalized
                /\ normalized[JsonFile(listing[k])].rows =
                       SnapshotRows(AllEvents(files[listing[k]].doc)).rows

\* C22: no step of a run, a call of normalize_snapshot_file included, changes
\* the module-level variable sport: its value after any number of calls is
\* the value it had before.
C22_ModuleSportUntouched == [][sport' = sport]_vars

\* a run has ended normally after normalising a file whose events are of
\* another sport than the module-level one, and the module-level sport is
\* still "basketball_nba"
C22_Witness ==
    /\ pc = "done"
    /\ sport = JStr("basketball_nba")
    /\ \E path \in DOMAIN normalized :
           /\ normalized[path].rows # <<>>
           /\ normalized[path].kind = "json"
           /\ normalized[path].rows[1].sport = JStr("icehockey_nhl")

\* the paths line 91 and line 96 give for the k-th file of the listing
OutputPaths(k) == { JsonFile(listing[k]), CsvFile(JsonFile(listing[k])) }

\* C29: in a run that has ended normally no two files of the listing that
\* gave records were written to the same path: their JSON paths differ, their
\* CSV paths differ, and the JSON path of one is not the CSV path of another.
C29_OutputPathsInjective ==
    pc = "done" =>
        \A j, k \in JsonNames :
            (/\ j # k
             /\ normalize_snapshot_file(files[listing[j]]).rows # <<>>
             /\ normalize_snapshot_file(files[listing[k]]).rows # <<>>) =>
                OutputPaths(j) \cap OutputPaths(k) = {}

(***************************************************************************)
(* The snapshot tools: `key set`, `key clear`, `key show`                  *)
(* (src/Snapshot/OddsAPI/snapshot_oddsapi_v1_1.py lines 94-121; the        *)
(* API-Sports tool has the same three functions, lines 193-224).           *)
(* A text is a sequence of characters.  What a command prints is a         *)
(* sequence whose first element stands for the fixed words of the message  *)
(* and whose other elements are the characters that follow them.           *)
(***************************************************************************)
MaxKeyLen == 5

KeyChars == {"a", "b", " "}
Whitespace == {" ", "\n"}
\* the one character U+2026 that line 120 puts between the two slices
Ellipsis == "..."

\* what getpass.getpass can return
TypedKeys == UNION { [1..n -> KeyChars] : n \in 0..MaxKeyLen }

\* str.strip(): leading and trailing whitespace removed
RECURSIVE Strip(_)
Strip(text) ==
    IF text = <<>> THEN <<>>
    ELSE IF Head(text) \in Whitespace THEN Strip(Tail(text))
    ELSE IF text[Len(text)] \in Whitespace THEN Strip(SubSeq(text, 1, Len(text) - 1))
    ELSE text

\* key[:4] and key[-4:]
FirstFour(key) == SubSeq(key, 1, IF Len(key) < 4 THEN Len(key) ELSE 4)
LastFour(key) == SubSeq(key, IF Len(key) < 4 THEN 1 ELSE Len(key) - 3, Len(key))

\* line 120: masked = key[:4] + "…" + key[-4:]
Masked(key) == FirstFour(key) \o <<Ellipsis>> \o LastFour(key)

InitKey ==
    /\ ModuleLoaded
    /\ SnifferIdle
    /\ OddsApiIdle
    /\ ConvIdle
    /\ FlatIdle
    /\ BatchIdle
    /\ SelIdle
    /\ SnapIdle
    /\ key_file \in {Absent, File(<<>>)}
    /\ stdout = <<>>

\* set_api_key, lines 101-108
SetApiKey ==
    /\ \E typed \in TypedKeys :
           \E api_key \in {Strip(typed)} :
               IF api_key = <<>>
               THEN /\ stdout' = <<"No key entered">>
                    /\ UNCHANGED key_file
               ELSE /\ key_file' = File(api_key \o <<"\n">>)
                    /\ stdout' = <<"API key saved">>
    /\ UNCHANGED <<coreVars, snifferVars, oddsapiVars, selVars, snapVars>>

\* clear_api_key, lines 94-99
ClearApiKey ==
    /\ IF key_file # Absent
       THEN /\ key_file' = Absent
            /\ stdout' = <<"API key cleared">>
       ELSE /\ stdout' = <<"No API key to clear">>
            /\ UNCHANGED key_file
    /\ UNCHANGED <<coreVars, snifferVars, oddsapiVars, selVars, snapVars>>

\* show_api_key, lines 110-121
ShowApiKey ==
    /\ IF key_file = Absent
       THEN stdout' = <<"No API key saved">>
       ELSE \E key \in {Strip(key_file.content)} :
                IF key = <<>>
                THEN stdout' = <<"API key file is empty">>
                ELSE stdout' = <<"Stored key: ">> \o Masked(key)
    /\ UNCHANGED <<coreVars, snifferVars, oddsapiVars, selVars, snapVars, key_file>>

NextKey ==
    \/ SetApiKey
    \/ ClearApiKey
    \/ ShowApiKey

SpecKey == InitKey /\ [][NextKey]_vars

\* text contains part as a run of consecutive characters
Contains(text, part) ==
    \E i \in 0..(Len(text) - Len(part)) : SubSeq(text, i + 1, i + Len(part)) = part

\* the last command was a `key show` that printed a stored key
KeyShown == stdout # <<>> /\ stdout[1] = "Stored key: "

\* C27: whenever `key show` has printed the stored key, the characters printed
\* after the fixed words do not contain the complete key.
C27_ShownKeyMasked ==
    KeyShown => ~Contains(Tail(stdout), Strip(key_file.content))

(***************************************************************************)
(* The API-Sports tool: `select add` and `select clear`                    *)
(* (src/Snapshot/API-Sports/snapshot_apisports_v1_1.py).                   *)
(* A sport, a season and a league name are strings as typed or as the API  *)
(* gave them; str.lower() and str.upper() are tables over the strings      *)
(* used here.                                                              *)
(***************************************************************************)
MaxStored == 3

\* lines 35-47: the keys of SPORT_URLS
SPORT_URLS ==
    {"afl", "baseball", "basketball", "f1", "football", "handball", "hockey",
     "mma", "nfl", "rugby", "volleyball"}

\* str.lower()
Lower(s) ==
    CASE s = "F1" -> "f1"
      [] s = "MMA" -> "mma"
      [] s = "Basketball" -> "basketball"
      [] OTHER -> s

\* str.upper()
Upper(s) ==
    CASE s = "f1" -> "F1"
      [] s = "mma" -> "MMA"
      [] s = "basketball" -> "BASKETBALL"
      [] s = "Basketball" -> "BASKETBALL"
      [] OTHER -> s

\* what --sport and --seasons can be given on the command line
TypedSports == {"f1", "F1", "basketball", "cricket"}
Seasons == {"2023", "2024"}
SeasonLists == UNION { [1..n -> Seasons] : n \in 1..2 }
\* utc_ts(), lines 75-76
Timestamps == {"T1", "T2"}

\* get_leagues, lines 246-296, as resolve_league sees it: f1 and mma have no
\* /leagues endpoint and get the synthetic league of lines 273-279, the
\* other sports get what the API lists
LeaguesOf(typed) ==
    IF Lower(typed) \in {"f1", "mma"}
    THEN { [id |-> 1, name |-> Upper(typed)] }
    ELSE { [id |-> 12, name |-> "NBA"], [id |-> 20, name |-> "G League"] }

\* load_selections, lines 582-588
load_selections == IF selections_file = Absent THEN <<>> ELSE selections_file.content

\* selection_exists, lines 594-600
selection_exists(selections, s, league_id, season) ==
    \E k \in 1..Len(selections) :
        /\ selections[k].sport = s
        /\ selections[k].league.id = league_id
        /\ selections[k].season = season

\* lines 611-616: the entry add_selection appends
Selection(s, league, season, ts) ==
    [sport |-> s, league |-> league, season |-> season, added_at |-> ts]

\* lines 606-618: the loop of add_selection over seasons; stamps[k] is what
\* utc_ts() gives while seasons[k] is handled
RECURSIVE AppendSeasons(_, _, _, _, _)
AppendSeasons(selections, s, league, seasons, stamps) ==
    IF seasons = <<>> THEN selections
    ELSE AppendSeasons(
             IF selection_exists(selections, s, league.id, Head(seasons))
             THEN selections
             ELSE Append(selections, Selection(s, league, Head(seasons), Head(stamps))),
             s, league, Tail(seasons), Tail(stamps))

\* an add_selection that looks for an existing entry only in the list as it
\* was loaded
add_selection_ChecksStoredOnly(selections, s, league, seasons, stamps) ==
    LET Fresh(k) == ~selection_exists(selections, s, league.id, seasons[k])
        kept == SelectSeq([k \in 1..Len(seasons) |-> k], Fresh)
    IN  selections \o
            [j \in 1..Len(kept) |->
                Selection(s, league, seasons[kept[j]], stamps[kept[j]])]

\* add_selection, lines 602-624: the list save_selections writes
add_selection(selections, s, league, seasons, stamps) ==
    AppendSeasons(selections, s, league, seasons, stamps)

InitSelect ==
    /\ ModuleLoaded
    /\ SnifferIdle
    /\ OddsApiIdle
    /\ ConvIdle
    /\ FlatIdle
    /\ BatchIdle
    /\ KeyIdle
    /\ SnapIdle
    /\ selections_file = Absent

\* main, lines 907-946: `select add --sport .. --league .. --seasons ..`.
\* resolve_league calls the API, so a sport that is not a key of SPORT_URLS
\* ends the command in get_base_url; a league that matches nothing ends it
\* with no change.
SelectAdd ==
    /\ \E typed \in TypedSports, seasons \in SeasonLists :
           /\ Len(load_selections) + Len(seasons) <= MaxStored
           /\ IF Lower(typed) \notin SPORT_URLS
              THEN UNCHANGED selections_file
              ELSE \E league \in LeaguesOf(typed) \cup {None} :
                       IF league = None
                       THEN UNCHANGED selections_file
                       ELSE \E stamps \in [1..Len(seasons) -> Timestamps] :
                                selections_file' =
                                    File(add_selection(load_selections, typed, league,
                                                       seasons, stamps))
    /\ UNCHANGED <<coreVars, snifferVars, oddsapiVars, keyVars, snapVars>>

\* clear_selections, lines 638-643
SelectClear ==
    /\ IF selections_file # Absent
       THEN selections_file' = Absent
       ELSE UNCHANGED selections_file
    /\ UNCHANGED <<coreVars, snifferVars, oddsapiVars, keyVars, snapVars>>

NextSelect ==
    \/ SelectAdd
    \/ SelectClear

SpecSelect == InitSelect /\ [][NextSelect]_vars

\* the (sport, league id, season) of a stored entry
SelectionKey(entry) == <<entry.sport, entry.league.id, entry.season>>

NoDuplicateSelections ==
    \A j, k \in 1..Len(load_selections) :
        j # k => SelectionKey(load_selections[j]) # SelectionKey(load_selections[k])

IsPrefix(a, b) == Len(a) <= Len(b) /\ SubSeq(b, 1, Len(a)) = a

\* no step that leaves a selections file behind removes or moves an entry
AddOnlyAppends ==
    selections_file' # Absent =>
        IsPrefix(load_selections, selections_file'.content)

\* C28: starting from no selections file, after any sequence of select add
\* and select clear the stored list never holds two entries with the same
\* (sport, league id, season), and every add leaves the entries that were
\* stored where they were, appending the new ones after them.
C28_NoDuplicatesAddAppends ==
    [](NoDuplicateSelections) /\ [][AddOnlyAppends]_vars

\* a full list built by adds for one league: two seasons of it and an entry
\* of another sport
C28_Witness ==
    /\ Len(load_selections) = MaxStored
    /\ \E j, k \in 1..Len(load_selections) :
           /\ j < k
           /\ load_selections[j].sport = load_selections[k].sport
           /\ load_selections[j].league.id = load_selections[k].league.id
           /\ load_selections[j].season # load_selections[k].season
    /\ \E j, k \in 1..Len(load_selections) :
           load_selections[j].sport # load_selections[k].sport

(***************************************************************************)
(* The API-Sports tool: the `snapshot` command                             *)
(* (src/Snapshot/API-Sports/snapshot_apisports_v1_1.py, main lines         *)
(* 955-991 and snapshot lines 669-735).                                    *)
(***************************************************************************)
MaxSelections == 2

\* line 56
SNAPSHOT_CATEGORIES == <<"fixtures", "odds", "lineups", "injuries", "results">>

\* lines 59-62: SPORT_SPECIFIC_CATEGORIES, a dict keyed by "f1" and "mma"
SPORT_SPECIFIC_SPORTS == {"f1", "mma"}
SPORT_SPECIFIC_CATEGORIES(s) ==
    IF s = "f1" THEN <<"races", "competitions", "teams", "circuits">>
    ELSE <<"fights", "teams">>

\* get_categories_for_sport, lines 64-66: dict.get with the sport as stored
get_categories_for_sport(s) ==
    IF s \in SPORT_SPECIFIC_SPORTS THEN SPORT_SPECIFIC_CATEGORIES(s)
    ELSE SNAPSHOT_CATEGORIES

\* lines 652-667: ENDPOINT_MAP
ENDPOINT_KEYS ==
    {"fixtures", "odds", "lineups", "injuries", "results", "races",
     "competitions", "circuits", "teams", "fights"}
ENDPOINT_MAP(category) ==
    IF category \in {"fixtures", "results"} THEN "games" ELSE category

\* the arguments of one `snapshot` command: whether --categories was given,
\* the words after it, and the --date value
NoCategories == [given |-> FALSE, cats |-> <<>>, date |-> None]
TypedCategoryLists ==
    { <<>>, <<"odds">>, <<"teams", "races">>, <<"odds", "standings">>,
      SNAPSHOT_CATEGORIES }
Argvs ==
    {NoCategories, [NoCategories EXCEPT !.date = JStr("2024-01-15")]}
        \cup { [given |-> TRUE, cats |-> cats, date |-> None] : cats \in TypedCategoryLists }

\* the selections a selections file can hold when the command starts: what
\* select add stores for a sport in either letter case, and an entry whose
\* sport is not a key of SPORT_URLS
StoredSports == {"f1", "F1", "basketball", "cricket"}
StoredSelection(s) ==
    Selection(s, CHOOSE league \in LeaguesOf(s) : league.id \in {1, 12}, "2024", "T1")
StoredLists ==
    { list \in UNION { [1..n -> { StoredSelection(s) : s \in StoredSports }] : n \in 0..MaxSelections } :
          \A j, k \in 1..Len(list) : j # k => list[j] # list[k] }

\* str.replace(" ", "_") after str.lower(), line 723, over the league names
LeagueDir(name) ==
    CASE name = "NBA" -> "nba"
      [] name = "G League" -> "g_league"
      [] name = "F1" -> "f1"
      [] name = "MMA" -> "mma"
      [] OTHER -> Lower(name)

\* lines 698-710: the request parameters of one (selection, category) pair
Params(sel, category, date) ==
    LET base == IF sel.sport \in SPORT_SPECIFIC_SPORTS
                THEN [season |-> sel.season]
                ELSE [league |-> sel.league.id, season |-> sel.season]
        dated == IF date # None THEN base @@ [date |-> date] ELSE base
    IN  IF category = "results" THEN dated @@ [status |-> "FT"] ELSE dated

InitSnapshot ==
    /\ ModuleLoaded
    /\ SnifferIdle
    /\ OddsApiIdle
    /\ ConvIdle
    /\ FlatIdle
    /\ BatchIdle
    /\ KeyIdle
    /\ selections_file \in {Absent} \cup { File(list) : list \in StoredLists }
    /\ argv \in Argvs
    /\ categories = <<>>
    /\ active_categories = <<>>
    /\ snap_pc = "main"
    /\ sel_pos = 0
    /\ cat_pos = 0
    /\ attempts = <<>>
    /\ out_files = {}
    /\ snap_exc = "none"

\* main, lines 955-991, up to the loop of snapshot(): the categories are the
\* default list unless --categories was given; an unknown word or an empty
\* list ends the command, and so does an empty selections list (lines 670-673)
SnapshotMain ==
    /\ snap_pc = "main"
    /\ \E cats \in {IF argv.given THEN argv.cats ELSE SNAPSHOT_CATEGORIES} :
           IF \/ \E k \in 1..Len(cats) : cats[k] \notin ENDPOINT_KEYS
              \/ cats = <<>>
              \/ load_selections = <<>>
           THEN /\ snap_pc' = "returned"
                /\ UNCHANGED <<categories, sel_pos>>
           ELSE /\ snap_pc' = "selection"
                /\ categories' = cats
                /\ sel_pos' = 1
    /\ UNCHANGED <<coreVars, snifferVars, oddsapiVars, keyVars, selVars, argv, active_categories, cat_pos,
                   attempts, out_files, snap_exc>>

\* lines 678-687: the next selection and the categories pulled for it
NextSelection ==
    /\ snap_pc = "selection"
    /\ sel_pos <= Len(load_selections)
    /\ active_categories' =
           IF categories # SNAPSHOT_CATEGORIES THEN categories
           ELSE get_categories_for_sport(load_selections[sel_pos].sport)
    /\ cat_pos' = 1
    /\ snap_pc' = "category"
    /\ UNCHANGED <<coreVars, snifferVars, oddsapiVars, keyVars, selVars, argv, categories, sel_pos,
                   attempts, out_files, snap_exc>>

\* lines 689-733: one pass of the loop over active_categories.  api_get goes
\* through get_base_url, which ends the process with sys.exit(1) for a sport
\* that is not a key of SPORT_URLS: SystemExit is not an Exception, so line
\* 715 does not catch it.  A request that fails raises an Exception, which
\* is caught.  Lines 720-730 are outside the try: a write that fails ends
\* the run.
PullCategory ==
    /\ snap_pc = "category"
    /\ cat_pos <= Len(active_categories)
    /\ LET sel == load_selections[sel_pos]
           category == active_categories[cat_pos]
           call == [sel |-> sel_pos, category |-> category,
                    sport |-> Lower(sel.sport),
                    endpoint |-> ENDPOINT_MAP(category),
                    params |-> Params(sel, category, argv.date)]
       IN  IF category \notin ENDPOINT_KEYS
           THEN /\ cat_pos' = cat_pos + 1
                /\ UNCHANGED <<snap_pc, attempts, out_files, snap_exc>>
           ELSE /\ attempts' = Append(attempts, call)
                /\ IF Lower(sel.sport) \notin SPORT_URLS
                   THEN /\ snap_pc' = "exited"
                        /\ snap_exc' = "SystemExit"
                        /\ UNCHANGED <<cat_pos, out_files>>
                   ELSE \E outcome \in {"ok", "request failed", "write failed"} :
                            CASE outcome = "request failed" ->
                                   /\ cat_pos' = cat_pos + 1
                                   /\ UNCHANGED <<snap_pc, out_files, snap_exc>>
                              [] outcome = "write failed" ->
                                   /\ snap_pc' = "exited"
                                   /\ snap_exc' = "OSError"
                                   /\ UNCHANGED <<cat_pos, out_files>>
                              [] OTHER ->
                                   /\ out_files' = out_files \cup
                                          { <<sel.sport, LeagueDir(sel.league.name),
                                              sel.season, category >> }
                                   /\ cat_pos' = cat_pos + 1
                                   /\ UNCHANGED <<snap_pc, snap_exc>>
    /\ UNCHANGED <<coreVars, snifferVars, oddsapiVars, keyVars, selVars, argv, categories, active_categories,
                   sel_pos>>

\* the end of the loop over active_categories: on to the next selection
EndSelection ==
    /\ snap_pc = "category"
    /\ cat_pos > Len(active_categories)
    /\ sel_pos' = sel_pos + 1
    /\ snap_pc' = "selection"
    /\ UNCHANGED <<coreVars, snifferVars, oddsapiVars, keyVars, selVars, argv, categories, active_categories,
                   cat_pos, attempts, out_files, snap_exc>>

\* line 735: print("Snapshot complete.")
SnapshotComplete ==
    /\ snap_pc = "selection"
    /\ sel_pos > Len(load_selections)
    /\ snap_pc' = "complete"
    /\ UNCHANGED <<coreVars, snifferVars, oddsapiVars, keyVars, selVars, argv, categories, active_categories,
                   sel_pos, cat_pos, attempts, out_files, snap_exc>>

NextSnapshot ==
    \/ SnapshotMain
    \/ NextSelection
    \/ PullCategory
    \/ EndSelection
    \/ SnapshotComplete

SpecSnapshot == InitSnapshot /\ [][NextSnapshot]_vars

\* the categories available for a sport, whatever letter case it is written in
AvailableCategories(s) ==
    IF Lower(s) = "f1" THEN <<"races", "competitions", "teams", "circuits">>
    ELSE IF Lower(s) = "mma" THEN <<"fights", "teams">>
    ELSE <<"fixtures", "odds", "lineups", "injuries", "results">>

\* the loop over the categories of a selection is running
PullingSelection == snap_pc = "category" /\ sel_pos \in 1..Len(load_selections)

\* C24: without --categories, the list pulled for a selection whose sport is
\* one of the tool's sports in any letter case is the list of the categories
\* available for that sport.
C24_DefaultIsAllAvailable ==
    (/\ PullingSelection
     /\ ~argv.given
     /\ Lower(load_selections[sel_pos].sport) \in SPORT_URLS) =>
        active_categories = AvailableCategories(load_selections[sel_pos].sport)

\* C25: with --categories and a list of valid categories, the list pulled
\* for every selection is the list given, in the order given.
C25_GivenCategoriesUsed ==
    (PullingSelection /\ argv.given) => active_categories = argv.cats

\* the list line 687 gives for the k-th selection
ActiveFor(k) ==
    IF categories # SNAPSHOT_CATEGORIES THEN categories
    ELSE get_categories_for_sport(load_selections[k].sport)

\* the (selection, category) pairs of a run, and those api_get was called for
PairsToPull ==
    UNION { { <<k, ActiveFor(k)[c]>> : c \in 1..Len(ActiveFor(k)) } :
                k \in 1..Len(load_selections) }
PairsAttempted == { <<attempts[i].sel, attempts[i].category>> : i \in 1..Len(attempts) }

\* C30: a run of snapshot() over a non-empty selections list ends only by
\* reaching "Snapshot complete", and by then every (selection, category)
\* pair has been attempted, whatever failed on the way.
C30_FailureDoesNotStopRun ==
    snap_pc \in {"complete", "exited"} =>
        /\ snap_pc = "complete"
        /\ PairsToPull \subseteq PairsAttempted

(***************************************************************************)
(* api_sniffer batch mode (src/api_sniffer.py, run_batch_discovery lines   *)
(* 499-806).  An API of the config is [base_url, found]: whether it has a  *)
(* base_url, and the results discover_endpoints returns for it, in the     *)
(* order of the dict.  An API is named by its position (the default name   *)
(* of line 540).                                                           *)
(***************************************************************************)
MaxApis == 2
MaxEndpoints == 2

\* the probes of one endpoint when no parameter gives data: every value of
\* basic_params (lines 603-609) or full_params (lines 612-644), then the
\* 5 * 2 * 2 combinations of lines 691-705
BasicProbes == 30
FullProbes == 85

ParamDepths == {"none", "basic", "full"}

\* what discover_endpoints can return for an endpoint: the error of the
\* response and the length of its data
EndpointResults ==
    { [error |-> "none", length |-> 3],
      [error |-> "none", length |-> 0],
      [error |-> "missing required parameter", length |-> 0] }

ApiConfigs ==
    { [base_url |-> FALSE, found |-> <<>>] } \cup
    { [base_url |-> TRUE, found |-> found] :
          found \in UNION { [1..n -> EndpointResults] : n \in 0..MaxEndpoints } }

\* lines 571-579: the three lists of one API, as lists of endpoint indices
IsNeedsParams(r) == r.error = "missing required parameter"
IsEmpty(r) == ~IsNeedsParams(r) /\ r.length = 0
IsReady(r) == ~IsNeedsParams(r) /\ r.length # 0
EndpointIndices(found) == [k \in 1..Len(found) |-> k]
needs_params(found) == SelectSeq(EndpointIndices(found), LAMBDA k : IsNeedsParams(found[k]))
empty(found) == SelectSeq(EndpointIndices(found), LAMBDA k : IsEmpty(found[k]))
ready(found) == SelectSeq(EndpointIndices(found), LAMBDA k : IsReady(found[k]))

RECURSIVE ProbesIssued(_, _)
\* lines 652-749: the probes of the loop over needs_params + empty, where
\* got[k] tells whether the first probe of the k-th endpoint gave data
ProbesIssued(got, depth) ==
    IF got = <<>> THEN 0
    ELSE (IF Head(got) THEN 1
          ELSE IF depth = "basic" THEN BasicProbes ELSE FullProbes)
         + ProbesIssued(Tail(got), depth)

InitSniffer ==
    /\ ModuleLoaded
    /\ ConvIdle
    /\ FlatIdle
    /\ BatchIdle
    /\ KeyIdle
    /\ SelIdle
    /\ SnapIdle
    /\ OddsApiIdle
    /\ param_depth \in ParamDepths
    /\ apis \in UNION { [1..n -> ApiConfigs] : n \in 0..MaxApis }
    /\ api_pos = 0
    /\ sniff_pc = "start"
    /\ probes = 0
    /\ results = <<>>
    /\ sniff_exc = "none"

\* lines 503-537: the config is read; no APIs ends the command
LoadConfig ==
    /\ sniff_pc = "start"
    /\ IF apis = <<>>
       THEN sniff_pc' = "returned" /\ UNCHANGED api_pos
       ELSE sniff_pc' = "api" /\ api_pos' = 1
    /\ UNCHANGED <<coreVars, keyVars, selVars, snapVars, oddsapiVars, param_depth,
                   apis, probes, results, sniff_exc>>

\* lines 539-768: one pass of the loop over the APIs.  The loop of line 652
\* stands after the if/else of lines 592-650, inside `if needs_params or
\* empty`: with --param-depth none it runs with test_params, successful_tests
\* and failed_endpoints never assigned, and line 656 raises
\* UnboundLocalError before any probe.
ProcessApi ==
    /\ sniff_pc = "api"
    /\ api_pos <= Len(apis)
    /\ LET api == apis[api_pos]
           targets == needs_params(api.found) \o empty(api.found)
       IN  IF ~api.base_url
           THEN /\ api_pos' = api_pos + 1
                /\ UNCHANGED <<sniff_pc, probes, results, sniff_exc>>
           ELSE IF targets # <<>> /\ param_depth = "none"
           THEN /\ sniff_pc' = "crashed"
                /\ sniff_exc' = "UnboundLocalError"
                /\ UNCHANGED <<api_pos, probes, results>>
           ELSE \E got \in [1..Len(targets) -> BOOLEAN] :
                    /\ probes' = probes + ProbesIssued(got, param_depth)
                    /\ results' = results @@
                           (api_pos :>
                               [endpoint_count |-> Len(api.found),
                                ready_endpoints |-> ready(api.found),
                                needs_params |-> needs_params(api.found),
                                empty_endpoints |-> empty(api.found),
                                sampled |-> { targets[k] : k \in { j \in 1..Len(targets) : got[j] } }])
                    /\ api_pos' = api_pos + 1
                    /\ UNCHANGED <<sniff_pc, sniff_exc>>
    /\ UNCHANGED <<coreVars, keyVars, selVars, snapVars, oddsapiVars, param_depth, apis>>

\* lines 770-806: the report and the summary table
SaveReport ==
    /\ sniff_pc = "api"
    /\ api_pos > Len(apis)
    /\ sniff_pc' = "done"
    /\ UNCHANGED <<coreVars, keyVars, selVars, snapVars, oddsapiVars, param_depth,
                   apis, api_pos, probes, results, sniff_exc>>

NextSniffer ==
    \/ LoadConfig
    \/ ProcessApi
    \/ SaveReport

SpecSniffer == InitSniffer /\ [][NextSniffer]_vars

\* the batch has ended, one way or another
BatchOver == sniff_pc \in {"done", "crashed"}

\* C26: with --param-depth none no parameter-test probe is ever issued, and
\* a batch over a non-empty list of APIs ends by writing its report, with a
\* result entry for every API that has a base_url.
C26_NoneSkipsParamTesting ==
    param_depth = "none" =>
        /\ probes = 0
        /\ BatchOver =>
               /\ sniff_pc = "done"
               /\ \A i \in 1..Len(apis) : apis[i].base_url => i \in DOMAIN results

(***************************************************************************)
(* The OddsAPI tool: the `snapshot` command                                *)
(* (src/Snapshot/OddsAPI/snapshot_oddsapi_v1_1.py, fetch_odds lines        *)
(* 188-210, save_snapshot lines 213-221, main lines 326-337).              *)
(* A JSON array at the top level of a document is [array |-> items]; a     *)
(* JSON object is a record, as in the core.                                *)
(***************************************************************************)
MaxSports == 2

JArray(items) == [array |-> items]

\* line 46
DATA_DIR == <<"snapshots_oddsapi", "/">>

OddsApiSports == {"basketball_nba", "icehockey_nhl"}
\* datetime.now(timezone.utc).strftime("%Y%m%d_%H%M%S"), line 214
SnapshotTimes == {"20240115_120000", "20240115_120001"}

\* an event of the answer to GET /sports/{sport}/odds/ with
\* oddsFormat=decimal (line 194): the prices are decimal odds
OddsApiEvent(s, home, away) ==
    [id |-> JStr("e1"), sport_key |-> JStr(s), commence_time |-> JStr("t1"),
     bookmakers |-> <<
        [key |-> JStr("draftkings"), last_update |-> JStr("t0"),
         markets |-> <<
            [key |-> JStr("h2h"),
             outcomes |-> << [name |-> JStr("Home"), price |-> JFloat(home)],
                             [name |-> JStr("Away"), price |-> JFloat(away)] >>] >>] >>]

\* resp.status_code and resp.json(): the body of a 200 answer is a JSON array
\* of events
Responses(s) ==
    { [status_code |-> 401, json |-> JArray(<<>>)],
      [status_code |-> 200, json |-> JArray(<<>>)],
      [status_code |-> 200, json |-> JArray(<< OddsApiEvent(s, Rat(5, 2), Rat(3, 2)) >>)],
      [status_code |-> 200, json |-> JArray(<< OddsApiEvent(s, Rat(191, 100), Rat(191, 100)) >>)] }

\* lines 215-218: out_dir / f"{sport}_{ts}.json"
SnapshotPath(s, ts) ==
    [dir |-> DATA_DIR \o <<s, "/">>, name |-> <<s, "_", ts, ".json">>]

InitOddsApi ==
    /\ ModuleLoaded
    /\ ConvIdle
    /\ FlatIdle
    /\ BatchIdle
    /\ KeyIdle
    /\ SelIdle
    /\ SnapIdle
    /\ SnifferIdle
    /\ sports_arg \in UNION { [1..n -> OddsApiSports] : n \in 1..MaxSports }
    /\ fetch_pos = 1
    /\ fetch_pc = "loop"
    /\ disk = <<>>
    /\ fetch_exc = "none"

\* main, lines 326-337: one pass of `for sport in args.sports`: fetch_odds
\* raises RuntimeError unless the status is 200 (lines 199-203), and
\* save_snapshot writes json.dumps(data) under DATA_DIR / sport
FetchAndSave ==
    /\ fetch_pc = "loop"
    /\ fetch_pos <= Len(sports_arg)
    /\ \E resp \in Responses(sports_arg[fetch_pos]) :
           IF resp.status_code # 200
           THEN /\ fetch_pc' = "failed"
                /\ fetch_exc' = "RuntimeError"
                /\ UNCHANGED <<fetch_pos, disk>>
           ELSE \E ts \in SnapshotTimes :
                    /\ disk' = (SnapshotPath(sports_arg[fetch_pos], ts) :> resp.json) @@ disk
                    /\ fetch_pos' = fetch_pos + 1
                    /\ UNCHANGED <<fetch_pc, fetch_exc>>
    /\ UNCHANGED <<coreVars, keyVars, selVars, snapVars, snifferVars, sports_arg>>

\* line 339: the loop is over
FetchDone ==
    /\ fetch_pc = "loop"
    /\ fetch_pos > Len(sports_arg)
    /\ fetch_pc' = "done"
    /\ UNCHANGED <<coreVars, keyVars, selVars, snapVars, snifferVars, sports_arg,
                   fetch_pos, disk, fetch_exc>>

NextOddsApi ==
    \/ FetchAndSave
    \/ FetchDone

SpecOddsApi == InitOddsApi /\ [][NextOddsApi]_vars

\* the three conditions for a file to be an input of the core
InSnapshotFolder(path) == path.dir = SNAPSHOT_FOLDER
HasEventsKey(doc) == "events" \in DOMAIN doc
EventsFound(doc) == IF HasEventsKey(doc) THEN doc.events ELSE doc.array
PricesAmerican(doc) ==
    \A e \in 1..Len(EventsFound(doc)) :
        \A b \in 1..Len(EventsFound(doc)[e].bookmakers) :
            \A m \in 1..Len(EventsFound(doc)[e].bookmakers[b].markets) :
                \A o \in 1..Len(EventsFound(doc)[e].bookmakers[b].markets[m].outcomes) :
                    IsInt(EventsFound(doc)[e].bookmakers[b].markets[m].outcomes[o].price)

\* C23: every file the OddsAPI snapshot command has written lies in the
\* folder the core reads, is a JSON object with a top-level events key, and
\* carries integer (American) prices.
C23_SnapshotIsCoreInput ==
    \A path \in DOMAIN disk :
        /\ InSnapshotFolder(path)
        /\ HasEventsKey(disk[path])
        /\ PricesAmerican(disk[path])

=============================================================================
